---- MODULE Spec2Model ----
(***************************************************************************)
(* PyFactorGraph: the TUM trajectory exporter                              *)
(* (py_factor_graph/io/tum_file.py) and the equivalence checkers of its    *)
(* test module (py_factor_graph/io/tests/test_io.py).                      *)
(*                                                                         *)
(* Numbers.  A float is modelled by the integer count of 10^-(F_PREC+1)    *)
(* it holds ("sub-units": one digit more than is rendered, so rendering    *)
(* rounds).  A rendered number, the text f"{v:.{F_PREC}f}", is the record  *)
(* [neg, mag]: its sign character and its digits read as a count of        *)
(* 10^-F_PREC ("-1.000001" is [neg |-> TRUE, mag |-> 1000001]).            *)
(*                                                                         *)
(* Files.  The output directory is the function files from the paths that  *)
(* exist to their content, a sequence of lines.  A line is the record      *)
(* [text, fields]: a comment line has its text and no fields, a data line  *)
(* has its space-separated fields, in order, and no text.                  *)
(***************************************************************************)
EXTENDS Integers, Sequences, FiniteSets, TLC

VARIABLES
    fg,      \* the FactorGraphData handed to the exporter
    files,   \* the output directory: path -> lines, for the paths that exist
    ret,     \* the last call on the directory, its arguments and its outcome
    chk      \* the last call of an equivalence checker, its inputs and result

vars == <<fg, files, ret, chk>>

----------------------------------------------------------------------------
(* Bounds *)

MaxPoses == 2        \* poses per robot
MaxLines == 2        \* lines per file handed to check_file_equality
MaxTumLines == 2     \* lines per list handed to check_tum_line_closeness

----------------------------------------------------------------------------
(* Precision policy *)

F_PREC == 6

RECURSIVE Pow10(_)
Pow10(n) == IF n = 0 THEN 1 ELSE 10 * Pow10(n - 1)

\* 1.0 as a float of the model, and as a rendered magnitude
Unit == Pow10(F_PREC + 1)
RUnit == Pow10(F_PREC)

Abs(v) == IF v < 0 THEN -v ELSE v

\* f"{v:.{F_PREC}f}": fixed point, F_PREC fractional digits, the sign of v
\* kept (a small negative renders "-0.000000"), round half to even
Render(v) ==
    LET a == Abs(v)
        q == a \div 10
        r == a % 10
        m == IF r < 5 THEN q
             ELSE IF r > 5 THEN q + 1
             ELSE IF q % 2 = 0 THEN q ELSE q + 1
    IN  [neg |-> v < 0, mag |-> m]

----------------------------------------------------------------------------
(* Rotation algebra and frame names (py_factor_graph.utils) *)

\* the n x n rotation block of an (n+1) x (n+1) homogeneous transform
get_rotation_matrix_from_transformation_matrix(T) ==
    LET n == Len(T) - 1
    IN  [i \in 1..n |-> [j \in 1..n |-> T[i][j]]]

\* the length-n translation column
get_translation_from_transformation_matrix(T) ==
    LET n == Len(T) - 1
    IN  [i \in 1..n |-> T[i][n + 1]]

\* sqrt(k)/2 for the values k = 4*q^2 a rotation with entries in {-1,0,1} has
HalfSqrt(k) ==
    CASE k = 0 -> 0
      [] k = 1 -> Unit \div 2
      [] k = 2 -> 7071068
      [] k = 4 -> Unit

Sgn(v) == IF v < 0 THEN -1 ELSE 1

\* (qx, qy, qz, qw) of a rotation matrix whose entries are 0 or +-Unit; a 2x2
\* matrix is embedded as a rotation about z.  The component of largest
\* magnitude is taken positive and fixes the signs of the others.
get_quat_from_rotation_matrix(R0) ==
    LET R == IF Len(R0) = 2
             THEN << <<R0[1][1], R0[1][2], 0>>,
                     <<R0[2][1], R0[2][2], 0>>,
                     <<0, 0, Unit>> >>
             ELSE R0
        r(i, j) == R[i][j] \div Unit
        tr == r(1,1) + r(2,2) + r(3,3)
        w == HalfSqrt(1 + tr)
        x == HalfSqrt(1 + r(1,1) - r(2,2) - r(3,3))
        y == HalfSqrt(1 - r(1,1) + r(2,2) - r(3,3))
        z == HalfSqrt(1 - r(1,1) - r(2,2) + r(3,3))
    IN  IF tr > 0
        THEN <<Sgn(r(3,2) - r(2,3)) * x, Sgn(r(1,3) - r(3,1)) * y,
               Sgn(r(2,1) - r(1,2)) * z, w>>
        ELSE IF r(1,1) >= r(2,2) /\ r(1,1) >= r(3,3)
        THEN <<x, Sgn(r(1,2) + r(2,1)) * y, Sgn(r(1,3) + r(3,1)) * z,
               Sgn(r(3,2) - r(2,3)) * w>>
        ELSE IF r(2,2) >= r(3,3)
        THEN <<Sgn(r(1,2) + r(2,1)) * x, y, Sgn(r(2,3) + r(3,2)) * z,
               Sgn(r(1,3) - r(3,1)) * w>>
        ELSE <<Sgn(r(1,3) + r(3,1)) * x, Sgn(r(2,3) + r(3,2)) * y, z,
               Sgn(r(2,1) - r(1,2)) * w>>

\* a frame name is <<robot character, index>> ("A3" is <<"A", 3>>); the time
\* index of a frame name is the number after the robot character
get_time_idx_from_frame_name(name) == name[2]

----------------------------------------------------------------------------
(* FactorGraphData: the graphs the exporter is given *)

RobotChars == {"A", "B"}
RobotNum(c) == IF c = "A" THEN 1 ELSE 2

\* the rotations of the pose table: (cos, sin) about z, or a half turn about x
RotZ(c, s, n) ==
    IF n = 2
    THEN << <<c * Unit, -s * Unit>>, <<s * Unit, c * Unit>> >>
    ELSE << <<c * Unit, -s * Unit, 0>>, <<s * Unit, c * Unit, 0>>, <<0, 0, Unit>> >>

RotX180 == << <<Unit, 0, 0>>, <<0, -Unit, 0>>, <<0, 0, -Unit>> >>

PoseRotation(c, i, n) ==
    IF n = 3 /\ c = "B" /\ i = 0 THEN RotX180
    ELSE CASE (i + RobotNum(c)) % 3 = 0 -> RotZ(1, 0, n)
           [] (i + RobotNum(c)) % 3 = 1 -> RotZ(0, 1, n)
           [] OTHER -> RotZ(-1, 0, n)

\* the true translation of pose i of robot c; no two poses share a component
PoseTranslation(c, i, n) ==
    LET x == (i + 1) * Unit + 4 + 10 * RobotNum(c)
        y == -(RobotNum(c) * Unit) - 6 - 10 * i
        z == i * (Unit \div 2) + 3 * RobotNum(c)
    IN  IF n = 2 THEN <<x, y>> ELSE <<x, y, z>>

\* the homogeneous transform of rotation R and translation t
Homogeneous(R, t) ==
    LET n == Len(t)
    IN  [i \in 1..(n + 1) |->
           [j \in 1..(n + 1) |->
              IF i <= n /\ j <= n THEN R[i][j]
              ELSE IF i <= n THEN t[i]
              ELSE IF j <= n THEN 0 ELSE Unit]]

PoseT(c, i, n) == Homogeneous(PoseRotation(c, i, n), PoseTranslation(c, i, n))

\* the transform composed from relative odometry: the true one, or one whose
\* translation has drifted
OdomT(c, i, n, measMode) ==
    IF measMode = "exact" THEN PoseT(c, i, n)
    ELSE LET t == PoseTranslation(c, i, n)
         IN  Homogeneous(PoseRotation(c, i, n),
                         [k \in 1..n |-> t[k] + 20 * (i + 1)])

\* an optional float: <<>> is None, <<v>> is v
None == <<>>
Some(v) == <<v>>

PoseTimestamp(i, tsMode) ==
    CASE tsMode = "none" -> None
      [] tsMode = "all" -> Some(i * (Unit \div 2) + 4)
      [] OTHER -> IF i % 2 = 0 THEN None ELSE Some(i * (Unit \div 2) + 4)

PoseVariable(c, i, n, tsMode) ==
    [name |-> <<c, i>>,
     timestamp |-> PoseTimestamp(i, tsMode),
     transformation_matrix |-> PoseT(c, i, n)]

\* an ordered mapping is the sequence of its items, in insertion order
Item(key, val) == [key |-> key, val |-> val]

SeqRange(s) == {s[i] : i \in 1..Len(s)}

\* a graph of the robots of `order`, with num[c] poses of robot c:
\*  measMode "dangling": the first robot's odometry reaches a pose that has no
\*                       pose variable;
\*  measMode "missing":  the last robot has no odometry trajectory.
MakeGraph(order, n, num, tsMode, measMode) ==
    LET robots == SeqRange(order)
        names == {<<c, i>> : c \in robots, i \in 0..(MaxPoses - 1)}
        known == {nm \in names : nm[2] < num[nm[1]]}
        truth(c) == [k \in 1..num[c] |-> Item(<<c, k - 1>>, PoseT(c, k - 1, n))]
        odom(c) == [k \in 1..num[c] |->
                       Item(<<c, k - 1>>, OdomT(c, k - 1, n, measMode))]
        odomOf(c) == IF measMode = "dangling" /\ c = order[1]
                     THEN Append(odom(c), Item(<<c, num[c]>>, OdomT(c, num[c], n, measMode)))
                     ELSE odom(c)
        odomRobots == IF measMode = "missing"
                      THEN robots \ {order[Len(order)]}
                      ELSE robots
    IN  [all_robot_chars |-> order,
         pose_variables_dict |->
            [nm \in known |-> PoseVariable(nm[1], nm[2], n, tsMode)],
         robot_true_trajectories_dict |-> [c \in robots |-> truth(c)],
         robot_odometry_trajectories_dict |-> [c \in odomRobots |-> odomOf(c)]]

RobotOrders == {<<"A">>, <<"A", "B">>, <<"B", "A">>}

Graphs ==
    {MakeGraph(order, n, num, tsMode, measMode) :
        order \in RobotOrders,
        n \in {2, 3},
        num \in [RobotChars -> 1..MaxPoses],
        tsMode \in {"none", "all", "mixed"},
        measMode \in {"exact", "drift", "dangling", "missing"}}

----------------------------------------------------------------------------
(* save_robot_trajectories_to_tum_file *)

Line(text, fields) == [text |-> text, fields |-> fields]

Header == Line("# time_stamp x y z qx qy qz qw", <<>>)

Dirs == {"tmp"}

\* os.path.join(dir, file_name)
Join(dir, name) == dir \o "/" \o name

\* mutant: the prefix does not follow the flag
file_prefix_AlwaysGroundTruth(use_ground_truth) == "odom_gt_robot_"

file_prefix(use_ground_truth) ==
    IF use_ground_truth THEN "odom_gt_robot_" ELSE "odom_meas_robot_"

file_name(use_ground_truth, robot_char) ==
    file_prefix(use_ground_truth) \o robot_char \o ".txt"

\* mutant: the trajectories do not follow the flag
trajectory_dict_AlwaysOdometry(g, use_ground_truth) ==
    g.robot_odometry_trajectories_dict

trajectory_dict(g, use_ground_truth) ==
    IF use_ground_truth
    THEN g.robot_true_trajectories_dict
    ELSE g.robot_odometry_trajectories_dict

\* ts: the pose variable's timestamp if it is not None, else the time index
\* of the frame name
Timestamp(g, robot_and_pose_id) ==
    LET pv == g.pose_variables_dict[robot_and_pose_id]
    IN  IF pv.timestamp # None
        THEN pv.timestamp[1]
        ELSE get_time_idx_from_frame_name(robot_and_pose_id) * Unit

\* mutant: a 2D translation is padded with the homogeneous 1
PadTranslation_Homogeneous(t) == IF Len(t) = 2 THEN Append(t, Unit) ELSE t

\* if len(t) == 2: t = np.append(t, 0)
PadTranslation(t) == IF Len(t) = 2 THEN Append(t, 0) ELSE t

\* mutant: the quaternion is written scalar first
FormatRow_ScalarFirst(ts, t, q) ==
    Line("", <<Render(ts), Render(t[1]), Render(t[2]), Render(t[3]),
               Render(q[4]), Render(q[1]), Render(q[2]), Render(q[3])>>)

\* the f-string of the data line
FormatRow(ts, t, q) ==
    Line("", <<Render(ts), Render(t[1]), Render(t[2]), Render(t[3]),
               Render(q[1]), Render(q[2]), Render(q[3]), Render(q[4])>>)

\* the body of the inner loop for one item of the trajectory
RowOf(g, item) ==
    FormatRow(Timestamp(g, item.key),
              PadTranslation(get_translation_from_transformation_matrix(item.val)),
              get_quat_from_rotation_matrix(
                  get_rotation_matrix_from_transformation_matrix(item.val)))

\* what the with-block writes for one robot before it ends or raises: the
\* header, then the rows of the items up to the first whose pose variable
\* lookup raises KeyError.  The file is closed, and so flushed, either way.
RECURSIVE WriteRows(_, _, _, _)
WriteRows(g, items, k, written) ==
    IF k > Len(items) THEN [content |-> written, error |-> ""]
    ELSE IF items[k].key \notin DOMAIN g.pose_variables_dict
    THEN [content |-> written, error |-> "KeyError"]
    ELSE WriteRows(g, items, k + 1, Append(written, RowOf(g, items[k])))

WriteRobotFile(g, trajectories, robot_char) ==
    IF robot_char \notin DOMAIN trajectories
    THEN [content |-> <<Header>>, error |-> "KeyError"]
    ELSE WriteRows(g, trajectories[robot_char], 1, <<Header>>)

\* mutant: the file is opened for appending
OpenForWrite_Append(fs, file_path, written) ==
    [p \in DOMAIN fs \cup {file_path} |->
        IF p # file_path THEN fs[p]
        ELSE IF p \in DOMAIN fs THEN fs[p] \o written ELSE written]

\* open(file_path, "w") ... close: the file is created or truncated and holds
\* what was written
OpenForWrite(fs, file_path, written) ==
    [p \in DOMAIN fs \cup {file_path} |-> IF p = file_path THEN written ELSE fs[p]]

\* the loop over fg.all_robot_chars from robot k on
RECURSIVE SaveLoop(_, _, _, _, _, _)
SaveLoop(g, dir, use_ground_truth, k, fs, odom_files) ==
    IF k > Len(g.all_robot_chars)
    THEN [files |-> fs, outcome |-> "ok", value |-> odom_files]
    ELSE LET robot_char == g.all_robot_chars[k]
             file_path == Join(dir, file_name(use_ground_truth, robot_char))
             w == WriteRobotFile(g, trajectory_dict(g, use_ground_truth), robot_char)
             fs2 == OpenForWrite(fs, file_path, w.content)
         IN  IF w.error # ""
             THEN [files |-> fs2, outcome |-> w.error, value |-> <<>>]
             ELSE SaveLoop(g, dir, use_ground_truth, k + 1, fs2,
                           Append(odom_files, file_path))

\* the positional arguments a caller passes after fg: (dir), (dir,
\* use_ground_truth), or, as check_write_tum_file does, (dir,
\* use_ground_truth, use_pose_idx)
ArgLists ==
    {<<d>> : d \in Dirs}
    \cup {<<d, b>> : d \in Dirs, b \in BOOLEAN}
    \cup {<<d, b, u>> : d \in Dirs, b \in BOOLEAN, u \in BOOLEAN}

\* the signature takes fg, dir and use_ground_truth (default True): a call
\* with more positional arguments raises TypeError before the body runs
save_robot_trajectories_to_tum_file(g, args, fs) ==
    IF Len(args) > 2
    THEN [files |-> fs, outcome |-> "TypeError", value |-> <<>>]
    ELSE SaveLoop(g, args[1], IF Len(args) = 2 THEN args[2] ELSE TRUE, 1, fs, <<>>)

NoCall == [op |-> "none", args |-> <<>>, outcome |-> "", value |-> <<>>]

Save(args) ==
    LET r == save_robot_trajectories_to_tum_file(fg, args, files)
    IN  /\ files' = r.files
        /\ ret' = [op |-> "save", args |-> args, outcome |-> r.outcome, value |-> r.value]
        /\ UNCHANGED <<fg, chk>>

\* os.remove(write_file) of check_write_tum_file
Remove(path) ==
    /\ path \in DOMAIN files
    /\ files' = [p \in DOMAIN files \ {path} |-> files[p]]
    /\ ret' = [op |-> "remove", args |-> <<path>>, outcome |-> "ok", value |-> <<>>]
    /\ UNCHANGED <<fg, chk>>

AllPaths == {Join(d, file_name(b, c)) : d \in Dirs, b \in BOOLEAN, c \in RobotChars}

NoFiles == [p \in {} |-> <<>>]

NoCheck == [op |-> "none", a |-> <<>>, b |-> <<>>, done |-> FALSE, result |-> FALSE,
            parsed |-> 0, error |-> ""]

----------------------------------------------------------------------------
(* check_file_equality *)

\* a text line is the sequence of its characters, the newline that ends it
\* included, as iterating over an open file yields it
Whitespace == {" ", "\n"}

RECURSIVE LStrip(_)
LStrip(s) == IF s # <<>> /\ Head(s) \in Whitespace THEN LStrip(Tail(s)) ELSE s

RECURSIVE RStrip(_)
RStrip(s) ==
    IF s # <<>> /\ s[Len(s)] \in Whitespace
    THEN RStrip(SubSeq(s, 1, Len(s) - 1))
    ELSE s

\* str.strip()
Strip(s) == RStrip(LStrip(s))

Min(a, b) == IF a <= b THEN a ELSE b

\* for line1, line2 in zip(f1, f2): the loop ends with the shorter file
RECURSIVE ZipLinesEqual(_, _, _)
ZipLinesEqual(f1, f2, k) ==
    IF k > Min(Len(f1), Len(f2)) THEN TRUE
    ELSE IF Strip(f1[k]) # Strip(f2[k]) THEN FALSE
    ELSE ZipLinesEqual(f1, f2, k + 1)

check_file_equality(f1, f2) == ZipLinesEqual(f1, f2, 1)

TextLines ==
    { <<"a", "\n">>, <<"a", " ", "\n">>, <<" ", "a", "\n">>, <<"b", "\n">>, <<"\n">> }

RECURSIVE SeqsUpTo(_, _)
SeqsUpTo(S, n) ==
    IF n = 0 THEN {<<>>}
    ELSE LET shorter == SeqsUpTo(S, n - 1)
         IN  shorter \cup {Append(q, e) : q \in {t \in shorter : Len(t) = n - 1}, e \in S}

TextFiles == SeqsUpTo(TextLines, MaxLines)

\* a call of a checker that has its arguments and has not run yet
Pending(op, a, b) ==
    [op |-> op, a |-> a, b |-> b, done |-> FALSE, result |-> FALSE, parsed |-> 0,
     error |-> ""]

CheckFileEquality ==
    /\ chk.op = "file_equality" /\ ~chk.done
    /\ chk' = [chk EXCEPT !.done = TRUE,
                          !.result = check_file_equality(chk.a, chk.b)]
    /\ UNCHANGED <<fg, files, ret>>

----------------------------------------------------------------------------
(* check_tum_line_closeness *)

Tok(m) == [neg |-> FALSE, mag |-> m]
NegTok(m) == [neg |-> TRUE, mag |-> m]

\* float(token), in units of 10^-F_PREC
ParseField(tok) == IF tok.neg THEN -tok.mag ELSE tok.mag

\* np.fromstring(line, sep=" ", dtype=float): a line is the sequence of its
\* space-separated fields
FromString(line) == [j \in 1..Len(line) |-> ParseField(line[j])]

\* numpy's default rtol of 1e-5, as a divisor
RtolInv == 100000

\* abs(a - b) <= atol + rtol * abs(b), atol in units of 1.0
IsClose(a, b, atol) == Abs(a - b) <= atol * RUnit + (Abs(b) \div RtolInv)

\* np.allclose(x, y, atol=atol): element-wise over the broadcast arrays;
\* shapes (m,) and (n,) broadcast when m = n or one of them is 1
AllClose(x, y, atol) ==
    IF Len(x) # Len(y) /\ Len(x) # 1 /\ Len(y) # 1
    THEN [value |-> FALSE, error |-> "ValueError"]
    ELSE LET n == IF Len(x) = 1 THEN Len(y) ELSE Len(x)
             at(v, j) == IF Len(v) = 1 THEN v[1] ELSE v[j]
         IN  [value |-> \A j \in 1..n : IsClose(at(x, j), at(y, j), atol),
              error |-> ""]

\* the loop over zip(tum_line_list_1, tum_line_list_2) from pair k on, with
\* the number of lines parsed so far
RECURSIVE CloseLoop(_, _, _, _)
CloseLoop(l1, l2, k, parsed) ==
    IF k > Min(Len(l1), Len(l2))
    THEN [result |-> TRUE, parsed |-> parsed, error |-> ""]
    ELSE LET c == AllClose(FromString(l1[k]), FromString(l2[k]), F_PREC)
         IN  IF c.error # ""
             THEN [result |-> FALSE, parsed |-> parsed + 2, error |-> c.error]
             ELSE IF ~c.value
             THEN [result |-> FALSE, parsed |-> parsed + 2, error |-> ""]
             ELSE CloseLoop(l1, l2, k + 1, parsed + 2)

\* mutant: the lengths are not compared first
check_tum_line_closeness_NoLengthCheck(tum_line_list_1, tum_line_list_2) ==
    CloseLoop(tum_line_list_1, tum_line_list_2, 1, 0)

check_tum_line_closeness(tum_line_list_1, tum_line_list_2) ==
    IF Len(tum_line_list_1) # Len(tum_line_list_2)
    THEN [result |-> FALSE, parsed |-> 0, error |-> ""]
    ELSE CloseLoop(tum_line_list_1, tum_line_list_2, 1, 0)

TumLines ==
    { <<Tok(0)>>, <<Tok(1)>>, <<NegTok(2 * RUnit)>>, <<Tok(7 * RUnit)>>, <<Tok(0), Tok(2)>>,
      <<Tok(0), Tok(0), Tok(0)>> }

TumLineLists == SeqsUpTo(TumLines, MaxTumLines)

CheckTumLineCloseness ==
    LET r == check_tum_line_closeness(chk.a, chk.b)
    IN  /\ chk.op = "tum_line_closeness" /\ ~chk.done
        /\ chk' = [chk EXCEPT !.done = TRUE, !.result = r.result,
                              !.parsed = r.parsed, !.error = r.error]
        /\ UNCHANGED <<fg, files, ret>>

----------------------------------------------------------------------------
(* Specifications *)

\* the exporter on a directory: exports of either kind and removals, in any
\* order, on any graph of the family
Init ==
    /\ fg \in Graphs
    /\ files = NoFiles
    /\ ret = NoCall
    /\ chk = NoCheck

Next ==
    \/ \E args \in ArgLists : Save(args)
    \/ \E path \in AllPaths : Remove(path)

Spec == Init /\ [][Next]_vars

\* the equivalence checkers, each called once on arguments of bounded size
InitCheck ==
    /\ fg = MakeGraph(<<"A">>, 2, [c \in RobotChars |-> 1], "none", "exact")
    /\ files = NoFiles
    /\ ret = NoCall
    /\ \/ \E f1 \in TextFiles, f2 \in TextFiles :
              chk = Pending("file_equality", f1, f2)
       \/ \E l1 \in TumLineLists, l2 \in TumLineLists :
              chk = Pending("tum_line_closeness", l1, l2)

NextCheck ==
    \/ CheckFileEquality
    \/ CheckTumLineCloseness

SpecCheck == InitCheck /\ [][NextCheck]_vars

----------------------------------------------------------------------------
(* Vocabulary of the properties *)

SaveCalled == ret.op = "save"
SaveSucceeded == ret.op = "save" /\ ret.outcome = "ok"
SaveRaised == ret.op = "save" /\ ret.outcome = "KeyError"

\* the arguments of the last save call
CallDir == ret.args[1]
CallGroundTruth == IF Len(ret.args) >= 2 THEN ret.args[2] ELSE TRUE

\* the file name pattern {odom_gt_robot_|odom_meas_robot_}<robot_char>.txt
PathOf(dir, ground_truth, c) ==
    dir \o "/" \o (IF ground_truth THEN "odom_gt_robot_" ELSE "odom_meas_robot_")
        \o c \o ".txt"

Robots == SeqRange(fg.all_robot_chars)

\* the trajectory mapping of the kind the last call exported
CallTrajectories ==
    IF CallGroundTruth
    THEN fg.robot_true_trajectories_dict
    ELSE fg.robot_odometry_trajectories_dict

\* the file of the last call for robot c
CallFile(c) == files[PathOf(CallDir, CallGroundTruth, c)]

Zero == [neg |-> FALSE, mag |-> 0]

----------------------------------------------------------------------------
(* C1 *)

\* the leading value the precedence rule gives an entry: the stored
\* timestamp, else the derived time index, else the numeric pose index
PrecedenceValue(key, use_pose_index) ==
    LET pv == fg.pose_variables_dict[key]
    IN  IF pv.timestamp # None THEN pv.timestamp[1]
        ELSE IF ~use_pose_index THEN get_time_idx_from_frame_name(key) * Unit
        ELSE key[2] * Unit

\* C1: a call export(graph, output_directory, use_ground_truth,
\* use_pose_index) goes through, and the leading value of every data row it
\* writes follows the precedence timestamp > time index (use_pose_index
\* false) > pose index (use_pose_index true).
C1_LeadingValuePrecedence ==
    (SaveCalled /\ Len(ret.args) = 3) =>
        /\ ret.outcome # "TypeError"
        /\ \A c \in Robots \cap DOMAIN CallTrajectories :
             LET items == CallTrajectories[c]
                 path == PathOf(CallDir, CallGroundTruth, c)
             IN  \A i \in 1..Len(items) :
                    (/\ path \in DOMAIN files
                     /\ i + 1 <= Len(files[path])
                     /\ items[i].key \in DOMAIN fg.pose_variables_dict)
                    => files[path][i + 1].fields[1]
                         = Render(PrecedenceValue(items[i].key, ret.args[3]))

----------------------------------------------------------------------------
(* C2 *)

\* C2: a successful export writes exactly one file per robot character of
\* fg.all_robot_chars, named odom_gt_robot_<char>.txt or
\* odom_meas_robot_<char>.txt in the given directory, touches no other file,
\* puts in each file only rows of that robot's trajectory, and returns those
\* paths, one per robot, in robot iteration order.
C2_OneFilePerRobot ==
    [][ (ret'.op = "save" /\ ret'.outcome = "ok") =>
          LET gt == IF Len(ret'.args) >= 2 THEN ret'.args[2] ELSE TRUE
              dir == ret'.args[1]
              order == fg'.all_robot_chars
              traj == IF gt THEN fg'.robot_true_trajectories_dict
                      ELSE fg'.robot_odometry_trajectories_dict
              written == {PathOf(dir, gt, order[k]) : k \in 1..Len(order)}
          IN  /\ ret'.value = [k \in 1..Len(order) |-> PathOf(dir, gt, order[k])]
              /\ Cardinality(written) = Len(order)
              /\ written \subseteq DOMAIN files'
              /\ DOMAIN files' = DOMAIN files \cup written
              /\ \A p \in DOMAIN files \ written : files'[p] = files[p]
              /\ \A k \in 1..Len(order) :
                   LET f == files'[PathOf(dir, gt, order[k])]
                       own == {<<Render(it.val[1][Len(it.val)]),
                                 Render(it.val[2][Len(it.val)])>> :
                                  it \in SeqRange(traj[order[k]])}
                   IN  /\ Len(f) = 1 + Len(traj[order[k]])
                       /\ \A i \in 2..Len(f) :
                            <<f[i].fields[2], f[i].fields[3]>> \in own
    ]_vars

\* robots {A, B}: a measured export has succeeded and the directory holds the
\* two ground-truth and the two measured files
C2_Witness ==
    /\ SaveSucceeded /\ ~CallGroundTruth
    /\ Robots = {"A", "B"}
    /\ DOMAIN files = {PathOf("tmp", b, c) : b \in BOOLEAN, c \in {"A", "B"}}

----------------------------------------------------------------------------
(* C3 *)

\* C3: after an export has failed, every file of that export is complete
\* (the header and one row per entry of the robot's trajectory), absent or
\* empty.
C3_NoPartialFile ==
    SaveRaised =>
        \A c \in Robots :
            LET path == PathOf(CallDir, CallGroundTruth, c)
            IN  \/ path \notin DOMAIN files
                \/ files[path] = <<>>
                \/ /\ c \in DOMAIN CallTrajectories
                   /\ Len(files[path]) = 1 + Len(CallTrajectories[c])

----------------------------------------------------------------------------
(* C4 *)

\* two files are equal: as many lines, and equal lines after trimming
FilesEqual(f1, f2) ==
    /\ Len(f1) = Len(f2)
    /\ \A k \in 1..Len(f1) : Strip(f1[k]) = Strip(f2[k])

\* C4: check_file_equality returns True exactly when the two files are
\* equal; a file that is a proper prefix of the other is not equal to it.
C4_EqualityIffEqual ==
    (chk.op = "file_equality" /\ chk.done) =>
        (chk.result <=> FilesEqual(chk.a, chk.b))

----------------------------------------------------------------------------
(* C5 *)

\* C5: check_tum_line_closeness accepts two lists of as many lines only if
\* corresponding fields differ by at most 10^-F_PREC, one unit of the last
\* rendered place.
C5_ToleranceIsLastPlace ==
    (/\ chk.op = "tum_line_closeness" /\ chk.done
     /\ Len(chk.a) = Len(chk.b) /\ chk.result) =>
        \A k \in 1..Len(chk.a) :
            \A j \in 1..Min(Len(chk.a[k]), Len(chk.b[k])) :
                Abs(ParseField(chk.a[k][j]) - ParseField(chk.b[k][j])) <= 1

----------------------------------------------------------------------------
(* C6 *)

\* C6: on two lists of different lengths check_tum_line_closeness returns
\* False at once: no line is parsed and no field is compared.
C6_LengthMismatchImmediate ==
    (chk.op = "tum_line_closeness" /\ chk.done /\ Len(chk.a) # Len(chk.b)) =>
        (~chk.result /\ chk.parsed = 0 /\ chk.error = "")

\* the shorter list is a prefix of the longer one, and the call returned
C6_Witness ==
    /\ chk.op = "tum_line_closeness" /\ chk.done
    /\ Len(chk.a) = 2 /\ Len(chk.b) = 1 /\ chk.a[1] = chk.b[1]
    /\ ~chk.result

----------------------------------------------------------------------------
(* C7 *)

\* the eight fields of the row of a trajectory item: timestamp, x, y, z, qx,
\* qy, qz, qw
ExpectedFields(item) ==
    LET T == item.val
        n == Len(T) - 1
        pv == fg.pose_variables_dict[item.key]
        ts == IF pv.timestamp # None THEN pv.timestamp[1] ELSE item.key[2] * Unit
        q == get_quat_from_rotation_matrix(
                 get_rotation_matrix_from_transformation_matrix(T))
    IN  <<Render(ts), Render(T[1][n + 1]), Render(T[2][n + 1]),
          IF n = 2 THEN Zero ELSE Render(T[3][n + 1]),
          Render(q[1]), Render(q[2]), Render(q[3]), Render(q[4])>>

\* C7: every file of a successful export starts with the header line and
\* then holds one data line per entry of the robot's trajectory, in
\* insertion order, each of exactly eight fields: timestamp x y z qx qy qz qw.
C7_HeaderThenRowsInOrder ==
    SaveSucceeded =>
        \A c \in Robots :
            LET f == CallFile(c)
                items == CallTrajectories[c]
            IN  /\ Len(f) = 1 + Len(items)
                /\ f[1] = Header
                /\ \A i \in 1..Len(items) :
                     /\ f[i + 1].text = ""
                     /\ Len(f[i + 1].fields) = 8
                     /\ f[i + 1].fields = ExpectedFields(items[i])

\* an export of a robot with two poses, one with a timestamp and one without
C7_Witness ==
    /\ SaveSucceeded
    /\ \E c \in Robots :
         /\ Len(CallFile(c)) = 3
         /\ fg.pose_variables_dict[<<c, 0>>].timestamp = None
         /\ fg.pose_variables_dict[<<c, 1>>].timestamp # None

----------------------------------------------------------------------------
(* C8 *)

\* C8: the row of a 2D transform has x and y of the transform and z zero,
\* rendered at the precision; the row of a 3D transform has its x, y and z.
C8_TranslationPadding ==
    SaveSucceeded =>
        \A c \in Robots :
            \A i \in 1..Len(CallTrajectories[c]) :
                LET t == get_translation_from_transformation_matrix(
                             CallTrajectories[c][i].val)
                    row == CallFile(c)[i + 1].fields
                IN  /\ Len(row) = 8
                    /\ row[2] = Render(t[1])
                    /\ row[3] = Render(t[2])
                    /\ Len(t) = 2 => row[4] = Zero
                    /\ Len(t) = 3 => row[4] = Render(t[3])

\* a 2D trajectory has been exported
C8_Witness ==
    /\ SaveSucceeded
    /\ \E c \in Robots :
         /\ Len(CallFile(c)) >= 2
         /\ Len(CallTrajectories[c][1].val) = 3
         /\ CallFile(c)[2].fields[4] = Zero

\* a 3D trajectory with a nonzero z has been exported
C8_Witness3D ==
    /\ SaveSucceeded
    /\ \E c \in Robots :
         /\ Len(CallFile(c)) >= 2
         /\ Len(CallTrajectories[c][1].val) = 4
         /\ CallFile(c)[2].fields[4] # Zero

----------------------------------------------------------------------------
(* C9 *)

\* every file of the directory holds what one export of its kind into an
\* empty directory leaves in it
FilesAsSingleExport ==
    /\ \A p \in DOMAIN files :
         \E d \in Dirs, b \in BOOLEAN :
            LET single == save_robot_trajectories_to_tum_file(fg, <<d, b>>, NoFiles).files
            IN  p \in DOMAIN single /\ files[p] = single[p]

\* C9: no call changes the graph, and after any sequence of exports the
\* content of each output file is what a single export of that kind produces.
C9_GraphUntouchedExportsRepeatable ==
    [][fg' = fg]_vars /\ []FilesAsSingleExport

\* exports of both kinds have run, the last one successfully
C9_Witness ==
    /\ SaveSucceeded
    /\ \E c \in Robots :
         /\ PathOf("tmp", TRUE, c) \in DOMAIN files
         /\ PathOf("tmp", FALSE, c) \in DOMAIN files
         /\ files[PathOf("tmp", TRUE, c)] # files[PathOf("tmp", FALSE, c)]

----------------------------------------------------------------------------
(* C10 *)

\* the pose records of robot c, by pose index
PoseRecords(c) == {nm \in DOMAIN fg.pose_variables_dict : nm[1] = c}

\* C10: in a ground-truth export the i-th row of robot R's file holds the
\* translation and the rotation of the i-th pose record of robot R, rendered
\* at the precision.
C10_GroundTruthFidelity ==
    (SaveSucceeded /\ CallGroundTruth) =>
        \A c \in Robots :
            LET f == CallFile(c)
            IN  /\ Len(f) = 1 + Cardinality(PoseRecords(c))
                /\ \A i \in 1..Cardinality(PoseRecords(c)) :
                     LET T == fg.pose_variables_dict[<<c, i - 1>>].transformation_matrix
                         n == Len(T) - 1
                         q == get_quat_from_rotation_matrix(
                                  get_rotation_matrix_from_transformation_matrix(T))
                         row == f[i + 1].fields
                     IN  /\ row[2] = Render(T[1][n + 1])
                         /\ row[3] = Render(T[2][n + 1])
                         /\ row[4] = IF n = 2 THEN Zero ELSE Render(T[3][n + 1])
                         /\ <<row[5], row[6], row[7], row[8]>>
                              = <<Render(q[1]), Render(q[2]), Render(q[3]), Render(q[4])>>

\* a ground-truth export of two robots with two poses each, on a graph whose
\* measured trajectories have drifted from the true ones
C10_Witness ==
    /\ SaveSucceeded /\ CallGroundTruth
    /\ Robots = {"A", "B"}
    /\ \A c \in Robots :
         /\ Len(CallFile(c)) = 3
         /\ c \in DOMAIN fg.robot_odometry_trajectories_dict
         /\ fg.robot_odometry_trajectories_dict[c][1].val
              # fg.robot_true_trajectories_dict[c][1].val

====
